---------------------------- MODULE Spec2Model ----------------------------
(***************************************************************************)
(* dbus-starlink (src/starlink.py): a Starlink dish is polled over gRPC    *)
(* and published as a Victron GPS device on D-Bus.                         *)
(*                                                                         *)
(* Numbers that are floats in the program (latitude, longitude, altitude   *)
(* as received) are modelled in tenths of a unit: 476 is 47.6.  The        *)
(* published altitude is the result of int() and is in whole units.        *)
(***************************************************************************)
EXTENDS Integers, Sequences, FiniteSets, TLC

(***************************************************************************)
(* Bounds of the model.                                                    *)
(***************************************************************************)
MaxRestarts == 1    \* restarts of the process that are followed
MaxPending  == 1    \* change notifications queued on the bus at one time

(***************************************************************************)
(* Values.                                                                 *)
(***************************************************************************)
DeviceIds == {"KU123456789", "KU987654321"}

\* sha256(info.id.encode()).hexdigest()[:8]  (line 68); the digests are the
\* real ones of the ids above, the empty string's for anything else.
ShortId(id) ==
    CASE id = "KU123456789" -> "6303b763"
      [] id = "KU987654321" -> "be23f54e"
      [] OTHER              -> "e3b0c442"

Keys == {ShortId(id) : id \in DeviceIds}

DefaultName == "Starlink"           \* line 112
Names       == {"Starlink", "Boat"}
NoRecord    == "<no record>"        \* the setting does not exist in the store
NoName      == "<no path>"          \* /CustomName has not been created

VERSION == "1.0"                    \* line 21, content of the version file

\* lla triples the dish can send (tenths); nan: the altitude is not a number
LLAs ==
    { [lat |-> 476,  lon |-> -1223, alt |-> 157,  nan |-> FALSE],
      [lat |-> -338, lon |-> 1512,  alt |-> -157, nan |-> FALSE],
      [lat |-> 370,  lon |-> -1220, alt |-> 0,    nan |-> TRUE] }

NoLla == [lat |-> 0, lon |-> 0, alt |-> 0, nan |-> FALSE]

NonZeroCodes == {14}

\* A response of stub.Handle: an RpcError (unreachable, timeout), or an
\* envelope with a status code and, for GetLocation, an optional lla.
RpcErrorResponse == [rpcError |-> TRUE, code |-> 0, hasLla |-> FALSE, lla |-> NoLla]

LocationResponses ==
    {RpcErrorResponse}
    \cup {[rpcError |-> FALSE, code |-> c, hasLla |-> FALSE, lla |-> NoLla] : c \in NonZeroCodes}
    \cup {[rpcError |-> FALSE, code |-> 0, hasLla |-> FALSE, lla |-> NoLla]}
    \cup {[rpcError |-> FALSE, code |-> 0, hasLla |-> TRUE, lla |-> l] : l \in LLAs}

NoInfo == [id |-> "", hasSw |-> FALSE, sw |-> "", hasHw |-> FALSE, hw |-> ""]

DeviceInfos ==
    {[id |-> i, hasSw |-> s, sw |-> IF s THEN "2024.05.0" ELSE "",
      hasHw |-> s, hw |-> IF s THEN "rev3_proto2" ELSE ""] :
        i \in DeviceIds, s \in BOOLEAN}

InfoResponses ==
    {[rpcError |-> TRUE, code |-> 0, info |-> NoInfo]}
    \cup {[rpcError |-> FALSE, code |-> c, info |-> NoInfo] : c \in NonZeroCodes}
    \cup {[rpcError |-> FALSE, code |-> 0, info |-> d] : d \in DeviceInfos}

NoInfoResponse == [rpcError |-> FALSE, code |-> -1, info |-> NoInfo]

(***************************************************************************)
(* Dishy: the gRPC client.                                                 *)
(***************************************************************************)
\* Python's None / a present value, for the three fields of a position
Absent     == [present |-> FALSE, v |-> 0, nan |-> FALSE]
Present(x) == [present |-> TRUE, v |-> x, nan |-> FALSE]
PresentAlt(l) == [present |-> TRUE, v |-> l.alt, nan |-> l.nan]

AbsentPosition == [latitude |-> Absent, longitude |-> Absent, altitude |-> Absent]

\* Dishy._make_request: the response, None on a non-zero status, and the
\* RpcError re-raised.
MakeRequest(resp) ==
    IF resp.rpcError
    THEN [exc |-> "RpcError", isNone |-> TRUE, r |-> resp]
    ELSE IF resp.code # 0
         THEN [exc |-> "none", isNone |-> TRUE, r |-> resp]
         ELSE [exc |-> "none", isNone |-> FALSE, r |-> resp]

\* A stub that swallows every failure and answers with a made-up identity.
GetDeviceInfoSwallowing(resp) ==
    LET m == MakeRequest(resp) IN
    IF m.exc # "none" \/ m.isNone
    THEN [exc |-> "none", info |-> [NoInfo EXCEPT !.id = "KU123456789"]]
    ELSE [exc |-> "none", info |-> m.r.info]

\* Dishy.get_device_info: r.get_device_info on None raises AttributeError.
GetDeviceInfo(resp) ==
    LET m == MakeRequest(resp) IN
    IF m.exc # "none" THEN [exc |-> m.exc, info |-> NoInfo]
    ELSE IF m.isNone THEN [exc |-> "AttributeError", info |-> NoInfo]
    ELSE [exc |-> "none", info |-> m.r.info]

\* A get_position that reads lla.lat without asking HasField: without an lla
\* the latitude is the field's default, 0.0, and the others are None.
GetPositionUncheckedLat(resp) ==
    LET m == MakeRequest(resp) IN
    IF m.exc # "none" THEN [exc |-> m.exc, pos |-> AbsentPosition]
    ELSE IF m.isNone THEN [exc |-> "AttributeError", pos |-> AbsentPosition]
    ELSE [exc |-> "none",
          pos |-> [latitude  |-> Present(m.r.lla.lat),
                   longitude |-> IF m.r.hasLla THEN Present(m.r.lla.lon) ELSE Absent,
                   altitude  |-> IF m.r.hasLla THEN PresentAlt(m.r.lla) ELSE Absent]]

\* Dishy.get_position: r.status on None raises AttributeError (line 53);
\* the three fields are present exactly when the response has an lla.
GetPosition(resp) ==
    LET m == MakeRequest(resp) IN
    IF m.exc # "none" THEN [exc |-> m.exc, pos |-> AbsentPosition]
    ELSE IF m.isNone THEN [exc |-> "AttributeError", pos |-> AbsentPosition]
    ELSE IF m.r.code # 0 THEN [exc |-> "none", pos |-> AbsentPosition]
    ELSE [exc |-> "none",
          pos |-> [latitude  |-> IF m.r.hasLla THEN Present(m.r.lla.lat) ELSE Absent,
                   longitude |-> IF m.r.hasLla THEN Present(m.r.lla.lon) ELSE Absent,
                   altitude  |-> IF m.r.hasLla THEN PresentAlt(m.r.lla) ELSE Absent]]

(***************************************************************************)
(* DbusService.refresh.                                                    *)
(***************************************************************************)
\* A conversion that rounds to the nearest integer instead.
IntRound(x) == IF x >= 0 THEN (x + 5) \div 10 ELSE -((5 - x) \div 10)

\* int(x) of a float: truncation toward zero (x in tenths, result in units)
IntTrunc(x) == IF x >= 0 THEN x \div 10 ELSE -((-x) \div 10)

DefaultTelemetry == [fix |-> 0, lat |-> 0, lon |-> 0, alt |-> 0]   \* lines 91-94

\* A refresh whose altitude assignment adds to the published value.
RefreshAccumulating(t, resp) ==
    LET g == GetPosition(resp) IN
    IF g.exc # "none" THEN [exc |-> g.exc, t |-> t, ret |-> "None"]
    ELSE IF g.pos.latitude.present /\ g.pos.longitude.present
         THEN [exc |-> "none", ret |-> "None",
               t |-> [fix |-> 1, lat |-> g.pos.latitude.v, lon |-> g.pos.longitude.v,
                      alt |-> t.alt + IntTrunc(g.pos.altitude.v)]]
         ELSE [exc |-> "none", ret |-> "None", t |-> [t EXCEPT !.fix = 0]]

\* A refresh that resets the position when there is no fix.
RefreshZeroing(t, resp) ==
    LET g == GetPosition(resp) IN
    IF g.exc # "none" THEN [exc |-> g.exc, t |-> t, ret |-> "None"]
    ELSE IF g.pos.latitude.present /\ g.pos.longitude.present
         THEN IF g.pos.altitude.nan
              THEN [exc |-> "ValueError", ret |-> "None",
                    t |-> [t EXCEPT !.fix = 1, !.lat = g.pos.latitude.v,
                                    !.lon = g.pos.longitude.v]]
              ELSE [exc |-> "none", ret |-> "None",
                    t |-> [fix |-> 1, lat |-> g.pos.latitude.v, lon |-> g.pos.longitude.v,
                           alt |-> IntTrunc(g.pos.altitude.v)]]
         ELSE [exc |-> "none", ret |-> "None", t |-> DefaultTelemetry]

\* DbusService.refresh on telemetry t with the dish answering resp: the
\* exception that leaves it ("none": it returns), the telemetry afterwards
\* and the value returned (the method has no return statement).
Refresh(t, resp) ==
    LET g == GetPosition(resp)
        written == [t EXCEPT !.fix = 1, !.lat = g.pos.latitude.v, !.lon = g.pos.longitude.v]
    IN
    IF g.exc # "none" THEN [exc |-> g.exc, t |-> t, ret |-> "None"]
    ELSE IF g.pos.latitude.present /\ g.pos.longitude.present
         THEN IF ~g.pos.altitude.present
              THEN [exc |-> "TypeError", t |-> written, ret |-> "None"]    \* int(None)
              ELSE IF g.pos.altitude.nan
              THEN [exc |-> "ValueError", t |-> written, ret |-> "None"]   \* int(nan)
              ELSE [exc |-> "none", ret |-> "None",
                    t |-> [written EXCEPT !.alt = IntTrunc(g.pos.altitude.v)]]
         ELSE [exc |-> "none", t |-> [t EXCEPT !.fix = 0], ret |-> "None"]

\* GLib keeps a timeout source only while its callback returns a true value;
\* a callback that raises counts as returning False.
SourceContinues(res) == res.exc = "none" /\ res.ret = "True"


(***************************************************************************)
(* The published tree and the settings.                                    *)
(***************************************************************************)
StaticPaths ==
    {"/Management/ProcessName", "/Management/ProcessVersion", "/Management/Connection",
     "/DeviceInstance", "/ProductId", "/ProductName", "/FirmwareVersion",
     "/HardwareVersion", "/Connected", "/Serial", "/State"}

TelemetryPaths == {"/Fix", "/Position/Latitude", "/Position/Longitude", "/Position/Altitude"}

NoStatic ==
    [processName |-> "", processVersion |-> "", connection |-> "", deviceInstance |-> 0,
     productId |-> 0, productName |-> "", firmwareVersion |-> "", hardwareVersion |-> "",
     connected |-> 0, serial |-> "", state |-> 0]

\* lines 76-88
StaticMetadata(info) ==
    [processName |-> "dbus-starlink", processVersion |-> VERSION, connection |-> "gRPC",
     deviceInstance |-> 1, productId |-> 45108, productName |-> "Starlink",
     firmwareVersion |-> IF info.hasSw THEN info.sw ELSE "N/A",
     hardwareVersion |-> IF info.hasHw THEN info.hw ELSE "N/A",
     connected |-> 1, serial |-> info.id, state |-> 256]

\* The onchangecallback of /CustomName (line 103) calls
\* self._handle_writable_setting_change, which DbusService does not define:
\* the call raises AttributeError, nothing is written to the settings and
\* the bus item keeps its value.
OnChangeCallback(key, v) ==
    [exc |-> "AttributeError", accepted |-> FALSE, storeWrite |-> FALSE]

\* The eventCallback given to SettingsDevice (line 114) is None: a change
\* notification updates the SettingsDevice's own value and nothing else.
EventCallbackPublishes == FALSE

NoCall ==
    [via |-> "none", resp |-> RpcErrorResponse, pre |-> DefaultTelemetry,
     post |-> DefaultTelemetry, exc |-> "none"]

Call(via, resp, pre, res) ==
    [via |-> via, resp |-> resp, pre |-> pre, post |-> res.t, exc |-> res.exc]

(***************************************************************************)
(* State.                                                                  *)
(***************************************************************************)
VARIABLES
    pc,              \* where main() is: see the actions
    restarts,        \* restarts of the process so far
    channel,         \* Dishy.channel: "none", "open", "closed"
    id,              \* DbusService.id, "" before line 68
    paths,           \* the paths added to the VeDbusService
    static,          \* the values of the static paths
    telemetry,       \* /Fix and /Position/*
    customName,      \* the value of /CustomName
    settings,        \* SettingsDevice's value of CustomName
    registered,      \* VeDbusService.register() has been called
    timerScheduled,  \* the GLib timeout source exists
    store,           \* the persisted CustomName of every device key
    pending,         \* change notifications not yet dispatched to this process
    infoResp,        \* the dish's answer to GetDeviceInfo in this run
    last, prev,      \* the last refresh() call of this run and the one before
    lastOp, lastV,   \* the last step, and the custom name it carried
    lastStoreWrites  \* writes to the store the last step made

vars == <<pc, restarts, channel, id, paths, static, telemetry, customName, settings,
          registered, timerScheduled, store, pending, infoResp, last, prev,
          lastOp, lastV, lastStoreWrites>>

Alive == pc \notin {"aborted", "terminated"}

\* the SettingsDevice exists and is subscribed to its setting
Subscribed == Alive /\ settings # NoRecord

FreshProcess ==
    /\ channel = "none"
    /\ id = ""
    /\ paths = {}
    /\ static = NoStatic
    /\ telemetry = DefaultTelemetry
    /\ customName = NoName
    /\ settings = NoRecord
    /\ registered = FALSE
    /\ timerScheduled = FALSE
    /\ pending = <<>>
    /\ infoResp = NoInfoResponse
    /\ last = NoCall
    /\ prev = NoCall

Init ==
    /\ pc = "main"
    /\ restarts = 0
    /\ FreshProcess
    /\ store \in [Keys -> Names \cup {NoRecord}]
    /\ lastOp = "start"
    /\ lastV = NoName
    /\ lastStoreWrites = 0

Step(op, v, w) ==
    /\ lastOp' = op
    /\ lastV' = v
    /\ lastStoreWrites' = w

(***************************************************************************)
(* main() and DbusService.__init__, step by step.                          *)
(***************************************************************************)
\* line 66: Dishy(target) opens the channel
DishyInit ==
    /\ pc = "main"
    /\ pc' = "get_device_info"
    /\ channel' = "open"
    /\ Step("DishyInit", NoName, 0)
    /\ UNCHANGED <<restarts, id, paths, static, telemetry, customName, settings,
                   registered, timerScheduled, store, pending, infoResp, last, prev>>

\* lines 67-68: an exception leaves __init__ and main()
FetchDeviceInfo ==
    /\ pc = "get_device_info"
    /\ \E resp \in InfoResponses :
         LET g == GetDeviceInfo(resp) IN
         /\ infoResp' = resp
         /\ IF g.exc # "none"
            THEN /\ pc' = "aborted"
                 /\ UNCHANGED id
            ELSE /\ pc' = "build_tree"
                 /\ id' = ShortId(g.info.id)
    /\ Step("FetchDeviceInfo", NoName, 0)
    /\ UNCHANGED <<restarts, channel, paths, static, telemetry, customName, settings,
                   registered, timerScheduled, store, pending, last, prev>>

\* A service constructed without register=False: on the bus at once.
BuildTreeRegistering ==
    /\ pc = "build_tree"
    /\ pc' = "setup_settings"
    /\ registered' = TRUE
    /\ paths' = StaticPaths \cup TelemetryPaths
    /\ static' = StaticMetadata(GetDeviceInfo(infoResp).info)
    /\ telemetry' = DefaultTelemetry
    /\ Step("BuildTree", NoName, 0)
    /\ UNCHANGED <<restarts, channel, id, customName, settings,
                   timerScheduled, store, pending, infoResp, last, prev>>

\* lines 72-94: VeDbusService(register=False) and the static and GPS paths,
\* their values taken from the info fetched at line 67
BuildTree ==
    /\ pc = "build_tree"
    /\ pc' = "setup_settings"
    /\ paths' = StaticPaths \cup TelemetryPaths
    /\ static' = StaticMetadata(GetDeviceInfo(infoResp).info)
    /\ telemetry' = DefaultTelemetry
    /\ Step("BuildTree", NoName, 0)
    /\ UNCHANGED <<restarts, channel, id, customName, settings,
                   registered, timerScheduled, store, pending, infoResp, last, prev>>

\* lines 97, 109-114: SettingsDevice adds the setting with its default when
\* the store has no record, and reads its value; an unavailable settings
\* service raises.
SetupSettings ==
    /\ pc = "setup_settings"
    /\ \E available \in BOOLEAN :
         IF available
         THEN /\ pc' = "add_custom_name"
              /\ store' = IF store[id] = NoRecord
                          THEN [store EXCEPT ![id] = DefaultName] ELSE store
              /\ settings' = store'[id]
              /\ Step("SetupSettings", NoName, IF store[id] = NoRecord THEN 1 ELSE 0)
         ELSE /\ pc' = "aborted"
              /\ Step("SetupSettings", NoName, 0)
              /\ UNCHANGED <<store, settings>>
    /\ UNCHANGED <<restarts, channel, id, paths, static, telemetry, customName,
                   registered, timerScheduled, pending, infoResp, last, prev>>

\* A /CustomName created with the default instead of the setting's value.
AddCustomNameDefault ==
    /\ pc = "add_custom_name"
    /\ pc' = "register"
    /\ paths' = paths \cup {"/CustomName"}
    /\ customName' = DefaultName
    /\ Step("AddCustomName", NoName, 0)
    /\ UNCHANGED <<restarts, channel, id, static, telemetry, settings,
                   registered, timerScheduled, store, pending, infoResp, last, prev>>

\* lines 98-104
AddCustomName ==
    /\ pc = "add_custom_name"
    /\ pc' = "register"
    /\ paths' = paths \cup {"/CustomName"}
    /\ customName' = settings
    /\ Step("AddCustomName", NoName, 0)
    /\ UNCHANGED <<restarts, channel, id, static, telemetry, settings,
                   registered, timerScheduled, store, pending, infoResp, last, prev>>

\* line 106
Register ==
    /\ pc = "register"
    /\ pc' = "first_refresh"
    /\ registered' = TRUE
    /\ Step("Register", NoName, 0)
    /\ UNCHANGED <<restarts, channel, id, paths, static, telemetry, customName, settings,
                   timerScheduled, store, pending, infoResp, last, prev>>

\* An __init__ that ends at register() and leaves the first refresh to the timer.
FirstRefreshSkipped ==
    /\ pc = "first_refresh"
    /\ pc' = "timeout_add"
    /\ Step("FirstRefresh", NoName, 0)
    /\ UNCHANGED <<restarts, channel, id, paths, static, telemetry, customName, settings,
                   registered, timerScheduled, store, pending, infoResp, last, prev>>

\* line 107: an exception of refresh() leaves __init__ and main()
FirstRefresh ==
    /\ pc = "first_refresh"
    /\ \E resp \in LocationResponses :
         LET res == Refresh(telemetry, resp) IN
         /\ telemetry' = res.t
         /\ prev' = last
         /\ last' = Call("init", resp, telemetry, res)
         /\ pc' = IF res.exc # "none" THEN "aborted" ELSE "timeout_add"
         /\ pending' = IF res.exc # "none" THEN <<>> ELSE pending
    /\ Step("FirstRefresh", NoName, 0)
    /\ UNCHANGED <<restarts, channel, id, paths, static, customName, settings,
                   registered, timerScheduled, store, infoResp>>

\* lines 137-140: the timer is added and the main loop entered
TimeoutAdd ==
    /\ pc = "timeout_add"
    /\ pc' = "Running"
    /\ timerScheduled' = TRUE
    /\ Step("TimeoutAdd", NoName, 0)
    /\ UNCHANGED <<restarts, channel, id, paths, static, telemetry, customName, settings,
                   registered, store, pending, infoResp, last, prev>>

(***************************************************************************)
(* The main loop.                                                          *)
(***************************************************************************)
\* A timer callback that also clears /Connected when the refresh fails.
TimerTickMarkingDisconnected ==
    /\ pc = "Running"
    /\ timerScheduled
    /\ \E resp \in LocationResponses :
         LET res == Refresh(telemetry, resp) IN
         /\ telemetry' = res.t
         /\ prev' = last
         /\ last' = Call("timer", resp, telemetry, res)
         /\ timerScheduled' = SourceContinues(res)
         /\ static' = IF res.exc # "none" THEN [static EXCEPT !.connected = 0] ELSE static
    /\ Step("TimerTick", NoName, 0)
    /\ UNCHANGED <<pc, restarts, channel, id, paths, customName, settings,
                   registered, store, pending, infoResp>>

\* The timeout fires and GLib calls service.refresh; the source stays only
\* if the call returns a true value.
TimerTick ==
    /\ pc = "Running"
    /\ timerScheduled
    /\ \E resp \in LocationResponses :
         LET res == Refresh(telemetry, resp) IN
         /\ telemetry' = res.t
         /\ prev' = last
         /\ last' = Call("timer", resp, telemetry, res)
         /\ timerScheduled' = SourceContinues(res)
    /\ Step("TimerTick", NoName, 0)
    /\ UNCHANGED <<pc, restarts, channel, id, paths, static, customName, settings,
                   registered, store, pending, infoResp>>

\* A bus client calls SetValue(v) on /CustomName.  VeDbusItemExport answers a
\* write of the current value at once; otherwise it asks the
\* onchangecallback and sets the value only if that returns true.
BusSetValue ==
    /\ pc = "Running"
    /\ registered
    /\ \E v \in Names :
         LET cb == OnChangeCallback("CustomName", v)
             asked == v # customName
         IN
         /\ customName' = IF asked /\ cb.exc = "none" /\ cb.accepted THEN v ELSE customName
         /\ store' = IF asked /\ cb.storeWrite THEN [store EXCEPT ![id] = v] ELSE store
         /\ Step(IF asked THEN "BusSetValue" ELSE "BusSetValueSame", v,
                 IF asked /\ cb.storeWrite THEN 1 ELSE 0)
    /\ UNCHANGED <<pc, restarts, channel, id, paths, static, telemetry, settings,
                   registered, timerScheduled, pending, infoResp, last, prev>>

\* A client outside the process changes a persisted CustomName; the settings
\* service signals the change to the process that holds the setting.
StoreChange ==
    /\ \E k \in Keys, v \in Names :
         /\ store[k] # NoRecord
         /\ store[k] # v
         /\ store' = [store EXCEPT ![k] = v]
         /\ IF Subscribed /\ k = id
            THEN /\ Len(pending) < MaxPending
                 /\ pending' = Append(pending, v)
            ELSE UNCHANGED pending
         /\ Step("StoreChange", v, 1)
    /\ UNCHANGED <<pc, restarts, channel, id, paths, static, telemetry, customName, settings,
                   registered, timerScheduled, infoResp, last, prev>>

\* The main loop dispatches a change notification to the SettingsDevice.
HandleChangedSetting ==
    /\ pc = "Running"
    /\ pending # <<>>
    /\ settings' = Head(pending)
    /\ pending' = Tail(pending)
    /\ customName' = IF EventCallbackPublishes THEN Head(pending) ELSE customName
    /\ Step("HandleChangedSetting", Head(pending), 0)
    /\ UNCHANGED <<pc, restarts, channel, id, paths, static, telemetry,
                   registered, timerScheduled, store, infoResp, last, prev>>

\* The process is stopped from outside; nothing in the program closes the
\* channel.
Terminate ==
    /\ Alive
    /\ pc' = "terminated"
    /\ pending' = <<>>
    /\ Step("Terminate", NoName, 0)
    /\ UNCHANGED <<restarts, channel, id, paths, static, telemetry, customName, settings,
                   registered, timerScheduled, store, infoResp, last, prev>>

\* The process is started again; only the store outlives it.
Restart ==
    /\ ~Alive
    /\ restarts < MaxRestarts
    /\ restarts' = restarts + 1
    /\ pc' = "main"
    /\ channel' = "none"
    /\ id' = ""
    /\ paths' = {}
    /\ static' = NoStatic
    /\ telemetry' = DefaultTelemetry
    /\ customName' = NoName
    /\ settings' = NoRecord
    /\ registered' = FALSE
    /\ timerScheduled' = FALSE
    /\ pending' = <<>>
    /\ infoResp' = NoInfoResponse
    /\ last' = NoCall
    /\ prev' = NoCall
    /\ Step("Restart", NoName, 0)
    /\ UNCHANGED store

Next ==
    \/ DishyInit
    \/ FetchDeviceInfo
    \/ BuildTree
    \/ SetupSettings
    \/ AddCustomName
    \/ Register
    \/ FirstRefresh
    \/ TimeoutAdd
    \/ TimerTick
    \/ BusSetValue
    \/ StoreChange
    \/ HandleChangedSetting
    \/ Terminate
    \/ Restart

Spec == Init /\ [][Next]_vars

(***************************************************************************)
(* refresh() on its own: any published telemetry, any sequence of answers. *)
(***************************************************************************)
TelemetryStates ==
    [fix : {0, 1},
     lat : {0} \cup {l.lat : l \in LLAs},
     lon : {0} \cup {l.lon : l \in LLAs},
     alt : {0, 10} \cup {IntTrunc(l.alt) : l \in LLAs}]

RefreshInit ==
    /\ pc = "refresh"
    /\ restarts = 0
    /\ channel = "open"
    /\ id = ""
    /\ paths = StaticPaths \cup TelemetryPaths \cup {"/CustomName"}
    /\ static = NoStatic
    /\ telemetry \in TelemetryStates
    /\ customName = DefaultName
    /\ settings = DefaultName
    /\ registered = TRUE
    /\ timerScheduled = FALSE
    /\ pending = <<>>
    /\ infoResp = NoInfoResponse
    /\ last = NoCall
    /\ prev = NoCall
    /\ store = [k \in Keys |-> NoRecord]
    /\ lastOp = "start"
    /\ lastV = NoName
    /\ lastStoreWrites = 0

RefreshCall ==
    /\ pc = "refresh"
    /\ \E resp \in LocationResponses :
         LET res == Refresh(telemetry, resp) IN
         /\ telemetry' = res.t
         /\ prev' = last
         /\ last' = Call("call", resp, telemetry, res)
    /\ Step("RefreshCall", NoName, 0)
    /\ UNCHANGED <<pc, restarts, channel, id, paths, static, customName, settings,
                   registered, timerScheduled, store, pending, infoResp>>

RefreshNext == RefreshCall

RefreshSpec == RefreshInit /\ [][RefreshNext]_vars

(***************************************************************************)
(* Properties.                                                             *)
(***************************************************************************)
Called        == last.via # "none"
StatusFailure == ~last.resp.rpcError /\ last.resp.code # 0
InfoFailed    == infoResp \in InfoResponses /\ (infoResp.rpcError \/ infoResp.code # 0)

\* C1: while the main loop runs and every refresh so far has completed
\* normally (with a fix or with no fix), the 60 s timer is still scheduled,
\* so a further refresh occurs.
C1_TimerStaysScheduled ==
    (pc = "Running" /\ Called /\ last.exc = "none") => timerScheduled

\* C2: a refresh answered with a non-zero status code returns without
\* raising, sets Fix to 0 and leaves latitude, longitude and altitude as
\* they were.
C2_NonZeroStatusClearsFix ==
    (Called /\ StatusFailure) =>
        /\ last.exc = "none"
        /\ last.post = [last.pre EXCEPT !.fix = 0]
        /\ telemetry = last.post

\* C3: a refresh run by the timer whose GetLocation fails at transport level
\* does not raise, and the telemetry is what it was before the call.
C3_TransportFailureContained ==
    (last.via = "timer" /\ last.resp.rpcError) =>
        /\ last.exc = "none"
        /\ last.post = last.pre
        /\ telemetry = last.pre

\* C4: after a failed refresh cycle (transport failure or non-zero status)
\* the timer is still scheduled, so refresh() is invoked again and can
\* publish the next position.
C4_FailedCycleRetried ==
    (pc = "Running" /\ last.via = "timer" /\ (last.resp.rpcError \/ StatusFailure))
        => (timerScheduled /\ ENABLED TimerTick)

\* C5: when the device-info fetch of a run has failed, the run is aborted
\* with no path created, the service never registered, no refresh made and
\* no timer scheduled.
C5_InfoFailureNeverRuns ==
    InfoFailed =>
        /\ pc = "aborted"
        /\ ~registered
        /\ paths = {}
        /\ ~timerScheduled
        /\ ~Called

C5_Witness == InfoFailed /\ pc = "aborted" /\ lastOp = "FetchDeviceInfo"

\* C6: no state has the tree registered and the initialization aborted.
C6_AbortNeverRegistered == ~(pc = "aborted" /\ registered)

\* C7: after a bus client's write of v to /CustomName the persisted
\* CustomName of this device is v and the published /CustomName is v.
C7_BusWriteForwarded ==
    lastOp \in {"BusSetValue", "BusSetValueSame"} =>
        (store[id] = lastV /\ customName = lastV)

\* C8: once the notification of an external change of the persisted
\* CustomName to v has been handled and none is left, the published
\* /CustomName is v and equals the persisted one.
C8_NotificationMirrored ==
    (lastOp = "HandleChangedSetting" /\ pending = <<>>) =>
        (customName = lastV /\ customName = store[id])

\* C9: every external change of the custom name, through the published
\* field or in the store, makes exactly one write to the store, and
\* handling a change notification makes none.
C9_OneStoreWritePerChange ==
    /\ lastOp \in {"BusSetValue", "StoreChange"} => lastStoreWrites = 1
    /\ lastOp = "HandleChangedSetting" => lastStoreWrites = 0

\* C10: two consecutive refresh() calls that get the same GetLocation
\* response leave the same telemetry: the second call changes nothing.
C10_RefreshIdempotent ==
    (prev.via # "none" /\ Called /\ last.resp = prev.resp) =>
        /\ last.pre = prev.post
        /\ last.post = prev.post
        /\ telemetry = prev.post

C10_Witness ==
    /\ prev.via = "call" /\ last.via = "call"
    /\ last.resp = prev.resp
    /\ last.resp.hasLla
    /\ prev.pre.fix = 0 /\ prev.pre.alt # prev.post.alt
    /\ telemetry.fix = 1

OkResponse == Called /\ ~last.resp.rpcError /\ last.resp.code = 0

C12_StaticNeverChanges ==
    [][ /\ (paths # {} /\ pc' # "main") => static' = static
        /\ lastOp' \in {"FirstRefresh", "TimerTick"} =>
               (static' = static /\ customName' = customName /\ paths' = paths)
        /\ lastOp' \in {"BusSetValue", "BusSetValueSame"} => static' = static
      ]_vars

C12_Witness ==
    /\ lastOp = "TimerTick"
    /\ last.exc # "none"
    /\ prev.post.fix = 1
    /\ static = StaticMetadata(infoResp.info)
    /\ static.connected = 1
    /\ customName \in Names

\* C13: when the process has ended (aborted during startup or stopped
\* later) after opening its channel, the channel has been closed.
\* Dishy.close (lines 29-31) has no caller.
C13_ChannelClosedAtExit ==
    (~Alive /\ channel # "none") => channel = "closed"

\* C14: a non-zero status reaches no caller as an exception: get_position
\* returns the all-absent position and get_device_info returns; a transport
\* failure does reach the caller.
C14_StatusNeverRaised ==
    /\ (Called /\ StatusFailure) =>
           GetPosition(last.resp) = [exc |-> "none", pos |-> AbsentPosition]
    /\ (infoResp \in InfoResponses /\ ~infoResp.rpcError /\ infoResp.code # 0) =>
           GetDeviceInfo(infoResp).exc = "none"
    /\ (Called /\ last.resp.rpcError) => GetPosition(last.resp).exc = "RpcError"
    /\ (infoResp \in InfoResponses /\ infoResp.rpcError) =>
           GetDeviceInfo(infoResp).exc = "RpcError"

\* C15: a refresh answered with status 0 and no lla returns normally, sets
\* Fix to 0 and leaves latitude, longitude and altitude as they were, so the
\* position of an earlier fix stays published.
C15_NoLlaKeepsPosition ==
    (OkResponse /\ ~last.resp.hasLla) =>
        /\ last.exc = "none"
        /\ telemetry = last.post
        /\ telemetry.fix = 0
        /\ telemetry.lat = last.pre.lat
        /\ telemetry.lon = last.pre.lon
        /\ telemetry.alt = last.pre.alt

C15_Witness ==
    /\ OkResponse /\ ~last.resp.hasLla
    /\ last.via = "timer"
    /\ last.pre.fix = 1
    /\ telemetry = [fix |-> 0, lat |-> 476, lon |-> -1223, alt |-> 15]

AllPaths == StaticPaths \cup TelemetryPaths \cup {"/CustomName"}

\* C16: whenever the service has been registered, every static path, the
\* four telemetry paths and /CustomName have been created with their values,
\* and registration happened at line 106, after all of them.
C16_RegisteredTreeComplete ==
    registered =>
        /\ paths = AllPaths
        /\ static = StaticMetadata(infoResp.info)
        /\ static.serial \in DeviceIds
        /\ customName \in Names
        /\ pc \in {"first_refresh", "timeout_add", "Running", "aborted", "terminated"}

C16_Witness == registered /\ lastOp = "Register" /\ pc = "first_refresh"

\* C17: SettingsDevice reads the value persisted under this device's key,
\* adding the record with the default "Starlink" when there is none, and
\* /CustomName is created with that value: it equals the persisted value
\* unless a change made since the read is still waiting to be dispatched.
\* So a name persisted before a restart is published after it.
C17_CustomNameLoaded ==
    [][ /\ (pc = "setup_settings" /\ pc' = "add_custom_name") =>
               /\ settings' = IF store[id] = NoRecord THEN DefaultName ELSE store[id]
               /\ store'[id] = settings'
               /\ \A k \in Keys \ {id} : store'[k] = store[k]
        /\ (pc = "add_custom_name" /\ pc' = "register") =>
               /\ customName' = settings
               /\ pending = <<>> => customName' = store[id]
      ]_vars

C17_Witness ==
    /\ restarts > 0
    /\ lastOp = "AddCustomName"
    /\ customName = "Boat"
    /\ store[id] = "Boat"

\* C18: when the main loop is entered, exactly one refresh has been made, by
\* __init__ after register(), it returned normally, and the telemetry is what
\* that call made of the creation-time values with the dish's answer.
C18_FirstRefreshBeforeRunning ==
    (pc = "Running" /\ lastOp = "TimeoutAdd") =>
        /\ registered
        /\ last.via = "init" /\ prev.via = "none"
        /\ last.exc = "none"
        /\ last.pre = DefaultTelemetry
        /\ telemetry = last.post
        /\ last.resp.hasLla =>
               (telemetry.fix = 1 /\ telemetry.lat = last.resp.lla.lat
                                  /\ telemetry.lon = last.resp.lla.lon)
        /\ ~last.resp.hasLla => telemetry = DefaultTelemetry

C18_Witness ==
    /\ pc = "Running" /\ lastOp = "TimeoutAdd"
    /\ telemetry = [fix |-> 1, lat |-> 476, lon |-> -1223, alt |-> 15]

\* C19: in the position get_position returns for the answer of a refresh,
\* latitude and longitude are both present or both absent and the altitude
\* is present only with them; a refresh leaves Fix at 1 only if it was 1
\* before or both latitude and longitude were present.
C19_FixOnlyWithLatLon ==
    Called =>
        LET p == GetPosition(last.resp).pos IN
        /\ p.latitude.present = p.longitude.present
        /\ p.altitude.present => (p.latitude.present /\ p.longitude.present)
        /\ p.latitude.present = (OkResponse /\ last.resp.hasLla)
        /\ (last.post.fix = 1 /\ last.pre.fix = 0) =>
               (p.latitude.present /\ p.longitude.present)
        /\ (last.exc = "none" /\ last.post.fix = 1) =>
               (p.latitude.present /\ p.longitude.present)

C19_Witness ==
    /\ Called /\ OkResponse /\ ~last.resp.hasLla
    /\ last.pre.fix = 1 /\ last.pre.alt # 0
    /\ telemetry.fix = 0

\* C20: a refresh that takes the fix branch returns normally, and after any
\* refresh either nothing was written, or only Fix, or Fix, latitude,
\* longitude and altitude all from the one response: Fix = 1 is never
\* published with an altitude older than its latitude and longitude.
C20_AllOrNothing ==
    Called =>
        LET p == GetPosition(last.resp).pos IN
        /\ (p.latitude.present /\ p.longitude.present) => last.exc = "none"
        /\ \/ last.post = last.pre
           \/ last.post = [last.pre EXCEPT !.fix = 0]
           \/ /\ last.exc = "none"
              /\ last.resp.hasLla
              /\ last.post.fix = 1
              /\ last.post.lat = last.resp.lla.lat
              /\ last.post.lon = last.resp.lla.lon
              /\ last.post.alt = IntTrunc(last.resp.lla.alt)

=============================================================================
